---- MODULE Spec2Model ----
(***************************************************************************)
(* A model of the batched, concurrent backtest runner of                   *)
(* src/backtest_engine.py and of the serving layer of src/main.py that     *)
(* triggers it.                                                            *)
(*                                                                         *)
(* A ticker symbol and the text of tickers.txt are sequences of one        *)
(* character strings.  A snapshot is the record [results, meta]; the       *)
(* "last_update" time stamp of the payload is a wall-clock reading that no *)
(* code path reads back and is left out.  A result carries the ticker and  *)
(* its "return"; "buy_hold" and "strategy" ride along in the source and    *)
(* are never read by the scheduler.                                        *)
(***************************************************************************)
EXTENDS Integers, Sequences, FiniteSets, TLC

\* ------------------------------------------------------------------------
\* Bounds of the model
\* ------------------------------------------------------------------------
MaxChars == 4       \* longest tickers.txt text explored by SpecRead
MaxList == 5        \* longest ticker list explored by SpecChunk
MaxBatch == 4       \* largest batch size explored by SpecChunk

\* ------------------------------------------------------------------------
\* Sequence helpers
\* ------------------------------------------------------------------------
Range(s) == {s[i] : i \in DOMAIN s}

NoDup(s) == \A i, j \in DOMAIN s : i /= j => s[i] /= s[j]

RECURSIVE Flatten(_)
Flatten(ss) == IF ss = <<>> THEN <<>> ELSE Head(ss) \o Flatten(Tail(ss))

RECURSIVE SumLen(_)
SumLen(ss) == IF ss = <<>> THEN 0 ELSE Len(Head(ss)) + SumLen(Tail(ss))

SeqsUpTo(S, n) == UNION {[1..k -> S] : k \in 0..n}

\* ------------------------------------------------------------------------
\* read_tickers
\* ------------------------------------------------------------------------
Letters == {"a", "A", "B"}
Alphabet == Letters \cup {",", " ", "\n"}

\* str.upper on the letters of the model
UpperChar(c) == IF c = "a" THEN "A" ELSE c

Upper(t) == [i \in DOMAIN t |-> UpperChar(t[i])]

\* str.splitlines: the lines of a text, without their line breaks; a final
\* line break opens no further line
RECURSIVE SplitLinesFrom(_, _, _)
SplitLinesFrom(raw, i, cur) ==
    IF i > Len(raw) THEN (IF cur = <<>> THEN <<>> ELSE <<cur>>)
    ELSE IF raw[i] = "\n" THEN <<cur>> \o SplitLinesFrom(raw, i + 1, <<>>)
    ELSE SplitLinesFrom(raw, i + 1, Append(cur, raw[i]))

SplitLines(raw) == SplitLinesFrom(raw, 1, <<>>)

\* line.replace(",", " ")
ReplaceCommas(line) == [i \in DOMAIN line |-> IF line[i] = "," THEN " " ELSE line[i]]

\* str.split(): the maximal runs of non-blank characters
RECURSIVE SplitFrom(_, _, _)
SplitFrom(line, i, cur) ==
    IF i > Len(line) THEN (IF cur = <<>> THEN <<>> ELSE <<cur>>)
    ELSE IF line[i] = " "
         THEN (IF cur = <<>> THEN <<>> ELSE <<cur>>) \o SplitFrom(line, i + 1, <<>>)
         ELSE SplitFrom(line, i + 1, Append(cur, line[i]))

Split(line) == SplitFrom(line, 1, <<>>)

\* the tokens of a text, line after line (lines 68-71)
RECURSIVE TokensOfLines(_)
TokensOfLines(ls) ==
    IF ls = <<>> THEN <<>>
    ELSE Split(ReplaceCommas(Head(ls))) \o TokensOfLines(Tail(ls))

Tokens(raw) == TokensOfLines(SplitLines(raw))

\* the de-duplication loop (lines 73-78): membership is tested on the token
\* as read, the upper-cased token is what is appended
RECURSIVE UniqFrom(_, _, _)
UniqFrom(lines, seen, uniq) ==
    IF lines = <<>> THEN uniq
    ELSE LET t == Head(lines) IN
         IF t \notin seen
         THEN UniqFrom(Tail(lines), seen \cup {t}, Append(uniq, Upper(t)))
         ELSE UniqFrom(Tail(lines), seen, uniq)

DefaultTickers ==
    << <<"A", "A", "P", "L">>, <<"M", "S", "F", "T">>, <<"G", "O", "O", "G", "L">>,
       <<"A", "M", "Z", "N">>, <<"M", "E", "T", "A">>, <<"N", "V", "D", "A">> >>

\* the tickers file: absent, holding a text, or present and not readable as
\* UTF-8 text (read_text of line 67 raises)
NoFile == [exists |-> FALSE, raw |-> <<>>, readable |-> TRUE]

FileOf(text) == [exists |-> TRUE, raw |-> text, readable |-> TRUE]

Unreadable == [exists |-> TRUE, raw |-> <<>>, readable |-> FALSE]

\* read_tickers raises: line 67 is under no try
ReadRaises(f) == f.exists /\ ~f.readable

read_tickers(f) ==
    LET uniq == IF f.exists THEN UniqFrom(Tokens(f.raw), {}, <<>>) ELSE <<>>
    IN  IF uniq /= <<>> THEN uniq ELSE DefaultTickers

\* ------------------------------------------------------------------------
\* _chunked and the batch count of the run metadata
\* ------------------------------------------------------------------------
\* a slice that stops one element early
Slice_DropLast(seq, i, n) ==
    LET hi == IF i + n - 1 < Len(seq) THEN i + n - 1 ELSE Len(seq)
    IN  [k \in 1..(hi - i) |-> seq[i + k]]

\* seq[i:i+n] with 0-based i: the elements i+1 .. min(i+n, len)
Slice(seq, i, n) ==
    LET hi == IF i + n < Len(seq) THEN i + n ELSE Len(seq)
    IN  [k \in 1..(hi - i) |-> seq[i + k]]

\* math.ceil(total / BATCH_SIZE)
CeilDiv(total, b) == IF total % b = 0 THEN total \div b ELSE (total \div b) + 1

\* _chunked: the slices at 0, n, 2n, ... below len(seq) (range(0, len, n))
RECURSIVE ChunkedFrom(_, _, _)
ChunkedFrom(seq, n, i) ==
    IF i >= Len(seq) THEN <<>>
    ELSE <<Slice(seq, i, n)>> \o ChunkedFrom(seq, n, i + n)

Chunked(seq, n) == ChunkedFrom(seq, n, 0)

\* ------------------------------------------------------------------------
\* Configuration (the defaults are overridable through the environment;
\* the model runs a small configuration)
\* ------------------------------------------------------------------------
BATCH_SIZE == 3
MAX_WORKERS == 2
RETRIES == 2
LOOKBACK_DAYS == 365
\* an executor of two threads
EXECUTOR_MAX_WORKERS_Two == 1 + 1

EXECUTOR_MAX_WORKERS == 1

MaxTriggers == 2    \* runs triggered: the startup run and the refreshes
MaxReturn == 1      \* the "return" of a result is drawn from 0..MaxReturn

ReturnVals == 0..MaxReturn
Slots == 1..EXECUTOR_MAX_WORKERS
RunIds == 1..MaxTriggers

\* ------------------------------------------------------------------------
\* _save_progress: the payload is the stable descending sort of the results
\* ------------------------------------------------------------------------
\* sorted(..., reverse=True) is stable: x goes behind every element whose
\* key is at least its own
RECURSIVE InsertDesc(_, _)
InsertDesc(sorted, x) ==
    IF sorted = <<>> THEN <<x>>
    ELSE IF Head(sorted).return >= x.return
         THEN <<Head(sorted)>> \o InsertDesc(Tail(sorted), x)
         ELSE <<x>> \o sorted

RECURSIVE SortDescFrom(_, _)
SortDescFrom(rest, acc) ==
    IF rest = <<>> THEN acc
    ELSE SortDescFrom(Tail(rest), InsertDesc(acc, Head(rest)))

\* a payload that keeps the arrival order
SortDesc_Unsorted(results) == results

SortDesc(results) == SortDescFrom(results, <<>>)

Payload(partial, meta) == [results |-> SortDesc(partial), meta |-> meta]

\* the state file: absent, holding a whole snapshot, or holding a proper
\* prefix of the text being written (open(..., "w") truncates, the text
\* arrives afterwards)
Absent == [kind |-> "absent"]
Torn == [kind |-> "torn"]
Whole(snap) == [kind |-> "whole", snap |-> snap]

\* ------------------------------------------------------------------------
\* State
\* ------------------------------------------------------------------------
VARIABLES
    tickersFile,    \* tickers.txt
    stateFile,      \* state.json
    startupDone,    \* the startup event has run
    created,        \* number of runs triggered so far (run ids 1..created)
    loopTasks,      \* run_backtest_background tasks created, not yet run
    execQueue,      \* work items of the serving layer's executor, in order
    run,            \* per executor thread: the backtest_tickers call it runs
    view,           \* what the last load_state of a reader met and returned
    writes,         \* the snapshots written so far by the run that wrote last
    started,        \* the ids of the runs begun by the executor, in order
    rdPc, rdOut,    \* a call of read_tickers on its own
    chPc, chSeq, chN, chI, chOut, chBatches   \* a run of _chunked on its own

vars == <<tickersFile, stateFile, startupDone, created, loopTasks, execQueue,
          run, view, writes, started, rdPc, rdOut, chPc, chSeq, chN, chI, chOut, chBatches>>

serveVars == <<startupDone, created, loopTasks, execQueue>>
readVars == <<rdPc, rdOut>>
chunkVars == <<chPc, chSeq, chN, chI, chOut, chBatches>>
histVars == <<writes, started>>

Null == [none |-> TRUE]

\* load_state / _load_state: the snapshot of a whole file; {} when the file
\* is absent or its text does not parse
EmptyDict == [empty |-> TRUE]

\* a load_state without its try: the parse error leaves the call
load_state_Unguarded(content) ==
    IF content.kind = "whole" THEN content.snap
    ELSE IF content.kind = "torn" THEN [raised |-> TRUE] ELSE EmptyDict

load_state(content) == IF content.kind = "whole" THEN content.snap ELSE EmptyDict

NoView == [saw |-> [kind |-> "none"], got |-> EmptyDict]

\* a future of the batch pool: queued, running (attempt is the loop index
\* of line 107, calls the downloads made, sleeps the back-offs of line 116
\* slept), done (exit says which return statement ended the call) or
\* collected
QueuedFuture ==
    [st |-> "queued", attempt |-> 0, calls |-> 0, sleeps |-> 0, exit |-> "-", res |-> Null]

\* the tickers argument of backtest_tickers: None, or a list
NoArg == [given |-> FALSE, list |-> <<>>]

ListArg(l) == [given |-> TRUE, list |-> l]

IdleRun ==
    [id |-> 0, pc |-> "idle", arg |-> NoArg,
     tickers |-> <<>>, batch_index |-> 0, futures |-> <<>>,
     results_batch |-> <<>>, failed |-> 0, partial |-> <<>>, meta |-> Null,
     ret |-> "-"]

\* the thread of the executor is free: it runs nothing, or its last call
\* returned ("done") or raised ("raised")
Free(r) == r.pc \in {"idle", "done", "raised"}

\* lines 138-151
InitMeta(tickers, f) ==
    [total_tickers |-> Len(tickers),
     batch_size |-> BATCH_SIZE,
     max_workers |-> MAX_WORKERS,
     retries |-> RETRIES,
     lookback_days |-> LOOKBACK_DAYS,
     batches |-> CeilDiv(Len(tickers), BATCH_SIZE),
     completed_batches |-> 0,
     completed_count |-> 0,
     failed_count |-> 0,
     source |-> IF f.exists THEN "tickers.txt" ELSE "default_list"]

Batches(r) == Chunked(r.tickers, BATCH_SIZE)

Running(r) == {i \in DOMAIN r.futures : r.futures[i].st = "running"}

InFlight == {<<s, i>> \in Slots \X (1..BATCH_SIZE) :
                i \in DOMAIN run[s].futures /\ run[s].futures[i].st = "running"}

\* ------------------------------------------------------------------------
\* The serving layer (src/main.py)
\* ------------------------------------------------------------------------
\* startup_event: create the task of the first run
Startup ==
    /\ ~startupDone
    /\ startupDone' = TRUE
    /\ created' = created + 1
    /\ loopTasks' = Append(loopTasks, created + 1)
    /\ UNCHANGED <<tickersFile, stateFile, execQueue, run, view, readVars, chunkVars, histVars>>

\* GET /refresh: create the task of another run
Refresh ==
    /\ startupDone
    /\ created < MaxTriggers
    /\ created' = created + 1
    /\ loopTasks' = Append(loopTasks, created + 1)
    /\ UNCHANGED <<tickersFile, stateFile, startupDone, execQueue, run, view, readVars, chunkVars, histVars>>

\* run_backtest_background up to its await: the event loop runs the oldest
\* task, which submits backtest_tickers() to the executor
TaskSubmit ==
    /\ loopTasks /= <<>>
    /\ loopTasks' = Tail(loopTasks)
    /\ execQueue' = Append(execQueue, Head(loopTasks))
    /\ UNCHANGED <<tickersFile, stateFile, startupDone, created, run, view, readVars, chunkVars, histVars>>

\* ------------------------------------------------------------------------
\* backtest_tickers (src/backtest_engine.py)
\* ------------------------------------------------------------------------
\* a call that goes to the loop of line 154 without the save of line 152
Entered_NoInitialSave(id, arg) ==
    LET tickers == IF arg.given THEN arg.list ELSE read_tickers(tickersFile) IN
    [IdleRun EXCEPT !.id = id,
                    !.arg = arg,
                    !.pc = "loop",
                    !.tickers = tickers,
                    !.meta = InitMeta(tickers, tickersFile),
                    !.ret = "loop"]

\* lines 131-151 of call id with argument arg: the list is the argument or
\* what read_tickers gives, the metadata is set up and the first
\* _save_progress (line 152) is about to open the state file
Entered(id, arg) ==
    LET tickers == IF arg.given THEN arg.list ELSE read_tickers(tickersFile) IN
    [IdleRun EXCEPT !.id = id,
                    !.arg = arg,
                    !.pc = "save_open",
                    !.tickers = tickers,
                    !.meta = InitMeta(tickers, tickersFile),
                    !.ret = "loop"]

\* the call ends at line 132: read_tickers raises
EnterRaises(arg) == ~arg.given /\ ReadRaises(tickersFile)

\* a free executor thread takes the oldest work item, backtest_tickers()
\* (main.py line 40), and runs it up to line 151
RunStart(s) ==
    /\ Free(run[s])
    /\ execQueue /= <<>>
    /\ ~EnterRaises(NoArg)
    /\ execQueue' = Tail(execQueue)
    /\ run' = [run EXCEPT ![s] = Entered(Head(execQueue), NoArg)]
    /\ started' = Append(started, Head(execQueue))
    /\ UNCHANGED <<tickersFile, stateFile, startupDone, created, loopTasks, view, readVars, chunkVars, writes>>

\* the same, for a tickers file that cannot be read: the exception leaves
\* backtest_tickers before anything is written
RunStartRaises(s) ==
    /\ Free(run[s])
    /\ execQueue /= <<>>
    /\ EnterRaises(NoArg)
    /\ execQueue' = Tail(execQueue)
    /\ run' = [run EXCEPT ![s] = [IdleRun EXCEPT !.id = Head(execQueue), !.pc = "raised"]]
    /\ started' = Append(started, Head(execQueue))
    /\ UNCHANGED <<tickersFile, stateFile, startupDone, created, loopTasks, view, readVars, chunkVars, writes>>

\* _save_state, first half: write_text opens the file for writing, which
\* truncates it
SaveOpen(s) ==
    /\ run[s].pc = "save_open"
    /\ stateFile' = Torn
    /\ run' = [run EXCEPT ![s].pc = "save_write"]
    /\ UNCHANGED <<tickersFile, serveVars, view, readVars, chunkVars, histVars>>

\* the open raises (OSError): the file is as it was, the exception leaves
\* backtest_tickers
SaveOpenRaises(s) ==
    /\ run[s].pc = "save_open"
    /\ run' = [run EXCEPT ![s].pc = "raised"]
    /\ UNCHANGED <<tickersFile, stateFile, serveVars, view, readVars, chunkVars, histVars>>

\* the record of the snapshots written: those of one run, begun afresh
\* with the first write of another run
NoWrites == [id |-> 0, snaps |-> <<>>]

Logged(w, id, snap) ==
    IF w.id = id THEN [w EXCEPT !.snaps = Append(@, snap)]
    ELSE [id |-> id, snaps |-> <<snap>>]

\* where the coordinator goes on after a save
AfterSave(r) == IF r.ret = "loop" THEN "loop" ELSE "done"

\* _save_state, second half: the text of the payload is in the file
SaveWrite(s) ==
    /\ run[s].pc = "save_write"
    /\ stateFile' = Whole(Payload(run[s].partial, run[s].meta))
    /\ run' = [run EXCEPT ![s].pc = AfterSave(run[s])]
    /\ writes' = Logged(writes, run[s].id, Payload(run[s].partial, run[s].meta))
    /\ UNCHANGED <<tickersFile, serveVars, view, readVars, chunkVars, started>>

\* the write raises part way (disk full, ...): a prefix of the text stays
SaveWriteRaises(s) ==
    /\ run[s].pc = "save_write"
    /\ run' = [run EXCEPT ![s].pc = "raised"]
    /\ UNCHANGED <<tickersFile, stateFile, serveVars, view, readVars, chunkVars, histVars>>

\* line 154, a further batch: the pool is created and every ticker of the
\* batch is submitted to it (lines 155-162)
Dispatch(s) ==
    /\ run[s].pc = "loop"
    /\ run[s].batch_index < Len(Batches(run[s]))
    /\ LET batch == Batches(run[s])[run[s].batch_index + 1] IN
       run' = [run EXCEPT ![s] =
                [@ EXCEPT !.batch_index = @ + 1,
                          !.futures = [i \in DOMAIN batch |-> QueuedFuture],
                          !.results_batch = <<>>,
                          !.failed = 0,
                          !.pc = "collect"]]
    /\ UNCHANGED <<tickersFile, stateFile, serveVars, view, readVars, chunkVars, histVars>>

\* a loop that returns without the save of line 182
LoopEnd_NoFinalSave(s) ==
    /\ run[s].pc = "loop"
    /\ run[s].batch_index >= Len(Batches(run[s]))
    /\ run' = [run EXCEPT ![s] = [@ EXCEPT !.pc = "done", !.ret = "end"]]
    /\ UNCHANGED <<tickersFile, stateFile, serveVars, view, readVars, chunkVars, histVars>>

\* line 154, no further batch: the final save of line 182
LoopEnd(s) ==
    /\ run[s].pc = "loop"
    /\ run[s].batch_index >= Len(Batches(run[s]))
    /\ run' = [run EXCEPT ![s] = [@ EXCEPT !.pc = "save_open", !.ret = "end"]]
    /\ UNCHANGED <<tickersFile, stateFile, serveVars, view, readVars, chunkVars, histVars>>

\* ------------------------------------------------------------------------
\* The pool of a batch and _download_and_backtest_one
\* ------------------------------------------------------------------------
\* a pool that starts a thread for every work item
PoolHasThread_Unbounded(r) == TRUE

\* ThreadPoolExecutor(max_workers=MAX_WORKERS): a work item is taken up
\* only by one of at most MAX_WORKERS threads, each running one item
PoolHasThread(r) == Cardinality(Running(r)) < MAX_WORKERS

Queued(r) == {i \in DOMAIN r.futures : r.futures[i].st = "queued"}

FirstQueued(r) == CHOOSE i \in Queued(r) : \A j \in Queued(r) : i <= j

\* a pool thread takes the oldest queued work item
WorkerStart(s) ==
    /\ run[s].pc = "collect"
    /\ Queued(run[s]) /= {}
    /\ PoolHasThread(run[s])
    /\ run' = [run EXCEPT ![s].futures[FirstQueued(run[s])].st = "running"]
    /\ UNCHANGED <<tickersFile, stateFile, serveVars, view, readVars, chunkVars, histVars>>

\* a retry loop that runs one pass too many (range(RETRIES + 2))
AttemptRaises_OneMore(f) ==
    IF f.attempt <= RETRIES
    THEN [f EXCEPT !.attempt = @ + 1, !.calls = @ + 1, !.sleeps = @ + 1]
    ELSE [f EXCEPT !.calls = @ + 1, !.sleeps = @ + 1, !.st = "done",
                   !.exit = "line118", !.res = Null]

\* one pass of the loop of lines 107-116 whose download or computation
\* raises: back off, then the next attempt, or line 118 after the last
AttemptRaises(f) ==
    IF f.attempt < RETRIES
    THEN [f EXCEPT !.attempt = @ + 1, !.calls = @ + 1, !.sleeps = @ + 1]
    ELSE [f EXCEPT !.calls = @ + 1, !.sleeps = @ + 1, !.st = "done",
                   !.exit = "line118", !.res = Null]

\* a pass without data that is handled as one that raised
AttemptNoData_Retried(f) ==
    IF f.attempt < RETRIES
    THEN [f EXCEPT !.attempt = @ + 1, !.calls = @ + 1, !.sleeps = @ + 1]
    ELSE [f EXCEPT !.calls = @ + 1, !.sleeps = @ + 1, !.st = "done",
                   !.exit = "line112", !.res = Null]

\* one pass whose download yields an empty frame or one without "Close":
\* _compute_returns gives None, line 112 returns it
AttemptNoData(f) ==
    [f EXCEPT !.calls = @ + 1, !.st = "done", !.exit = "line112", !.res = Null]

\* one pass whose download yields prices: line 113 returns the result
AttemptData(f, ticker, ret) ==
    [f EXCEPT !.calls = @ + 1, !.st = "done", !.exit = "line113",
              !.res = [ticker |-> ticker, return |-> ret]]

CurrentBatch(r) == Batches(r)[r.batch_index]

FetchRaises(s, i) ==
    /\ i \in Running(run[s])
    /\ run' = [run EXCEPT ![s].futures[i] = AttemptRaises(@)]
    /\ UNCHANGED <<tickersFile, stateFile, serveVars, view, readVars, chunkVars, histVars>>

FetchNoData(s, i) ==
    /\ i \in Running(run[s])
    /\ run' = [run EXCEPT ![s].futures[i] = AttemptNoData(@)]
    /\ UNCHANGED <<tickersFile, stateFile, serveVars, view, readVars, chunkVars, histVars>>

FetchData(s, i) ==
    /\ i \in Running(run[s])
    /\ \E ret \in ReturnVals :
          run' = [run EXCEPT ![s].futures[i] =
                     AttemptData(@, CurrentBatch(run[s])[i], ret)]
    /\ UNCHANGED <<tickersFile, stateFile, serveVars, view, readVars, chunkVars, histVars>>

\* a collector that counts a failed future at line 170 and at line 172
Collected_FailureTwice(r, i) ==
    LET res == r.futures[i].res IN
    [r EXCEPT !.futures[i] = [QueuedFuture EXCEPT !.st = "collected"],
              !.results_batch = IF res /= Null THEN Append(@, res) ELSE @,
              !.failed = IF res /= Null THEN @ ELSE @ + 2]

\* a collector that drops a failed future without counting it
Collected_FailureUncounted(r, i) ==
    LET res == r.futures[i].res IN
    [r EXCEPT !.futures[i] = [st |-> "collected", attempt |-> 0, calls |-> 0,
                              sleeps |-> 0, exit |-> "-", res |-> [none |-> TRUE]],
              !.results_batch = IF res /= [none |-> TRUE] THEN Append(@, res) ELSE @]

\* lines 163-172 for one completed future: a result is appended, None or an
\* exception counts one failure
Collected(r, i) ==
    LET res == r.futures[i].res IN
    [r EXCEPT !.futures[i] = [QueuedFuture EXCEPT !.st = "collected"],
              !.results_batch = IF res /= Null THEN Append(@, res) ELSE @,
              !.failed = IF res /= Null THEN @ ELSE @ + 1]

\* as_completed hands over any future that is done
Collect(s, i) ==
    /\ run[s].pc = "collect"
    /\ i \in DOMAIN run[s].futures
    /\ run[s].futures[i].st = "done"
    /\ run' = [run EXCEPT ![s] = Collected(@, i)]
    /\ UNCHANGED <<tickersFile, stateFile, serveVars, view, readVars, chunkVars, histVars>>

\* a merge that keeps only the results of the batch
Merged_Replaces(r) ==
    [r EXCEPT !.partial = r.results_batch,
              !.meta = [@ EXCEPT !.completed_batches = r.batch_index,
                                 !.completed_count = Len(r.results_batch),
                                 !.failed_count = @ + r.failed]]

\* a merge that sets failed_count to the failures of the batch
Merged_FailedReset(r) ==
    LET partial == r.partial \o r.results_batch IN
    [r EXCEPT !.partial = partial,
              !.meta = [@ EXCEPT !.completed_batches = r.batch_index,
                                 !.completed_count = Len(partial),
                                 !.failed_count = r.failed]]

\* lines 175-178
Merged(r) ==
    LET partial == r.partial \o r.results_batch IN
    [r EXCEPT !.partial = partial,
              !.meta = [@ EXCEPT !.completed_batches = r.batch_index,
                                 !.completed_count = Len(partial),
                                 !.failed_count = @ + r.failed]]

\* a coordinator that leaves the pool once every work item was taken up
BatchDrained_NoneQueued(r) == Queued(r) = {}

\* a coordinator that goes on at the first collected future (a pool left
\* without waiting)
BatchDrained_AnyCollected(r) == \E i \in DOMAIN r.futures : r.futures[i].st = "collected"

\* as_completed has handed over every future of the batch, and the pool's
\* exit (shutdown(wait=True)) finds every work item finished
BatchDrained(r) == \A i \in DOMAIN r.futures : r.futures[i].st = "collected"

\* every future of the batch is collected: the pool is left (line 158),
\* the batch is merged and _save_progress of line 179 is about to open the
\* state file
Merge(s) ==
    /\ run[s].pc = "collect"
    /\ BatchDrained(run[s])
    /\ run' = [run EXCEPT ![s] = [Merged(@) EXCEPT !.pc = "save_open", !.ret = "loop"]]
    /\ UNCHANGED <<tickersFile, stateFile, serveVars, view, readVars, chunkVars, histVars>>

\* ------------------------------------------------------------------------
\* The specification of the service
\* ------------------------------------------------------------------------
SampleTexts ==
    { <<"A", ",", "B">>,
      <<"a", "\n", "A">>,
      <<"A", " ", "B", ",", "a", "\n", "B", "B">> }

SampleFiles == {FileOf(t) : t \in SampleTexts} \cup {Unreadable}

RestRead == rdPc = "-" /\ rdOut = <<>>

RestChunk ==
    /\ chPc = "-" /\ chSeq = <<>> /\ chN = 1 /\ chI = 0
    /\ chOut = <<>> /\ chBatches = 0

RestService ==
    /\ stateFile = Absent
    /\ startupDone = FALSE
    /\ created = 0
    /\ loopTasks = <<>>
    /\ execQueue = <<>>
    /\ run = [s \in Slots |-> IdleRun]
    /\ view = NoView
    /\ writes = NoWrites
    /\ started = <<>>

Init ==
    /\ tickersFile \in SampleFiles
    /\ RestService
    /\ RestRead
    /\ RestChunk

Next ==
    \/ Startup
    \/ Refresh
    \/ TaskSubmit
    \/ \E s \in Slots : RunStart(s)
    \/ \E s \in Slots : RunStartRaises(s)
    \/ \E s \in Slots : SaveOpen(s)
    \/ \E s \in Slots : SaveOpenRaises(s)
    \/ \E s \in Slots : SaveWrite(s)
    \/ \E s \in Slots : SaveWriteRaises(s)
    \/ \E s \in Slots : Dispatch(s)
    \/ \E s \in Slots : LoopEnd(s)
    \/ \E s \in Slots : WorkerStart(s)
    \/ \E s \in Slots, i \in 1..BATCH_SIZE : FetchRaises(s, i)
    \/ \E s \in Slots, i \in 1..BATCH_SIZE : FetchNoData(s, i)
    \/ \E s \in Slots, i \in 1..BATCH_SIZE : FetchData(s, i)
    \/ \E s \in Slots, i \in 1..BATCH_SIZE : Collect(s, i)
    \/ \E s \in Slots : Merge(s)

Spec == Init /\ [][Next]_vars

\* ------------------------------------------------------------------------
\* The service with a reader of the state file (GET /ranking, or any other
\* caller of load_state) that may read at any moment
\* ------------------------------------------------------------------------
LoadState ==
    /\ startupDone
    /\ view' = [saw |-> stateFile, got |-> load_state(stateFile)]
    /\ UNCHANGED <<tickersFile, stateFile, serveVars, run, readVars, chunkVars, histVars>>

NextView == Next \/ LoadState

ViewFiles == {FileOf(<<"A", ",", "B">>), FileOf(<<"a", "\n", "A">>), Unreadable}

InitView ==
    /\ tickersFile \in ViewFiles
    /\ RestService
    /\ RestRead
    /\ RestChunk

SpecView == InitView /\ [][NextView]_vars

\* ------------------------------------------------------------------------
\* One call of backtest_tickers by a caller of the engine, with a list or
\* without, in which no write of the state file fails and every download
\* returns or raises: a step that can be taken is taken in the end
\* ------------------------------------------------------------------------
CallLists == { <<>>, << <<"A">>, <<"B">>, <<"A", "B">>, <<"B", "B">> >> }

CallArgs == {NoArg} \cup {ListArg(l) : l \in CallLists}

CallFiles == {FileOf(<<"A", ",", "B">>), Unreadable}

InitCall ==
    /\ tickersFile \in CallFiles
    /\ RestRead
    /\ RestChunk
    /\ stateFile = Absent
    /\ startupDone = FALSE
    /\ created = 0
    /\ loopTasks = <<>>
    /\ execQueue = <<>>
    /\ \E a \in CallArgs : run = [s \in Slots |-> [IdleRun EXCEPT !.pc = "call", !.arg = a]]
    /\ view = NoView
    /\ writes = NoWrites
    /\ started = <<>>

\* lines 131-151 of the call
Call(s) ==
    /\ run[s].pc = "call"
    /\ ~EnterRaises(run[s].arg)
    /\ run' = [run EXCEPT ![s] = Entered(1, run[s].arg)]
    /\ started' = Append(started, 1)
    /\ UNCHANGED <<tickersFile, stateFile, serveVars, view, readVars, chunkVars, writes>>

\* the call ends at line 132: read_tickers raises
CallRaises(s) ==
    /\ run[s].pc = "call"
    /\ EnterRaises(run[s].arg)
    /\ run' = [run EXCEPT ![s] = [IdleRun EXCEPT !.id = 1, !.pc = "raised"]]
    /\ started' = Append(started, 1)
    /\ UNCHANGED <<tickersFile, stateFile, serveVars, view, readVars, chunkVars, writes>>

NextCall ==
    \/ \E s \in Slots : Call(s)
    \/ \E s \in Slots : CallRaises(s)
    \/ \E s \in Slots : SaveOpen(s)
    \/ \E s \in Slots : SaveWrite(s)
    \/ \E s \in Slots : Dispatch(s)
    \/ \E s \in Slots : LoopEnd(s)
    \/ \E s \in Slots : WorkerStart(s)
    \/ \E s \in Slots, i \in 1..BATCH_SIZE : FetchRaises(s, i)
    \/ \E s \in Slots, i \in 1..BATCH_SIZE : FetchNoData(s, i)
    \/ \E s \in Slots, i \in 1..BATCH_SIZE : FetchData(s, i)
    \/ \E s \in Slots, i \in 1..BATCH_SIZE : Collect(s, i)
    \/ \E s \in Slots : Merge(s)

SpecCall == InitCall /\ [][NextCall]_vars /\ WF_vars(NextCall)

\* ------------------------------------------------------------------------
\* read_tickers on its own, over every short text of tickers.txt
\* ------------------------------------------------------------------------
InitRead ==
    /\ tickersFile \in {NoFile} \cup {FileOf(t) : t \in SeqsUpTo(Alphabet, MaxChars)}
    /\ RestService
    /\ rdPc = "call" /\ rdOut = <<>>
    /\ RestChunk

ReadTickers ==
    /\ rdPc = "call"
    /\ rdPc' = "returned"
    /\ rdOut' = read_tickers(tickersFile)
    /\ UNCHANGED <<tickersFile, stateFile, serveVars, run, view, chunkVars, histVars>>

SpecRead == InitRead /\ [][ReadTickers]_vars

\* ------------------------------------------------------------------------
\* _chunked and the batch count on their own, over short lists and small
\* batch sizes
\* ------------------------------------------------------------------------
ChunkSymbols == { <<"A">>, <<"B">> }

InitChunk ==
    /\ tickersFile = NoFile
    /\ RestService
    /\ RestRead
    /\ chPc = "call"
    /\ chSeq \in SeqsUpTo(ChunkSymbols, MaxList)
    /\ chN \in 1..MaxBatch
    /\ chI = 0 /\ chOut = <<>> /\ chBatches = 0

\* lines 138 and 146, then the loop of line 154 drawing every batch
ChunkRun ==
    /\ chPc = "call"
    /\ chPc' = "done"
    /\ chBatches' = CeilDiv(Len(chSeq), chN)
    /\ chOut' = Chunked(chSeq, chN)
    /\ chI' = Len(chOut')
    /\ UNCHANGED <<tickersFile, stateFile, serveVars, run, view, readVars, chSeq, chN, histVars>>

SpecChunk == InitChunk /\ [][ChunkRun]_vars

\* ------------------------------------------------------------------------
\* Properties
\* ------------------------------------------------------------------------
IsSortedDesc(rs) == \A i \in 1..(Len(rs) - 1) : rs[i].return >= rs[i + 1].return

TickersOf(rs) == [i \in DOMAIN rs |-> rs[i].ticker]

\* every arrival order of the sequence q
Perms(q) == {[i \in DOMAIN q |-> q[f[i]]] : f \in Permutations(DOMAIN q)}

Unresolved(r) == {i \in DOMAIN r.futures : r.futures[i].st \in {"queued", "running", "done"}}

\* C1: every snapshot in the state file (the initial, each per-batch and the
\* final write) has completed_count equal to the number of its results and
\* its results in descending order of "return".
C1_SnapshotConsistent ==
    stateFile.kind = "whole" =>
        /\ stateFile.snap.meta.completed_count = Len(stateFile.snap.results)
        /\ IsSortedDesc(stateFile.snap.results)

\* a per-batch snapshot of a batch with a failure whose results arrived in
\* another order than the one written
C1_Witness ==
    \E s \in Slots :
        /\ stateFile.kind = "whole"
        /\ run[s].pc = "loop"
        /\ Len(stateFile.snap.results) >= 2
        /\ stateFile.snap.results /= run[s].partial
        /\ stateFile.snap.meta.failed_count >= 1

\* C2: a reader never meets a half-written state file: whatever the moment
\* of its read, it meets no file, or a whole snapshot.
C2_AtomicReplace == view.saw.kind /= "torn"

\* C3: collecting a future that ended in None counts exactly one failure,
\* adds no result, and leaves the batch and every other future as they
\* are; the batch is left only when every future is collected, each ticker
\* counted once, and goes on to the save: no step ends the run from within
\* a batch.
C3_FailureIsolated ==
    [][\A s \in Slots :
        /\ \A i \in DOMAIN run[s].futures :
              ( /\ run[s].futures[i].st = "done"
                /\ run[s].futures[i].res = Null
                /\ i \in DOMAIN run'[s].futures
                /\ run'[s].futures[i].st = "collected" )
              => /\ run'[s].failed = run[s].failed + 1
                 /\ run'[s].results_batch = run[s].results_batch
                 /\ run'[s].partial = run[s].partial
                 /\ run'[s].pc = "collect"
                 /\ \A j \in DOMAIN run[s].futures \ {i} :
                        run'[s].futures[j] = run[s].futures[j]
        /\ (run[s].pc = "collect" /\ run'[s].pc /= "collect")
              => /\ Unresolved(run[s]) = {}
                 /\ Len(run[s].results_batch) + run[s].failed = Len(CurrentBatch(run[s]))
                 /\ run'[s].pc = "save_open"
                 /\ run'[s].partial = run[s].partial \o run[s].results_batch
                 /\ run'[s].meta.failed_count = run[s].meta.failed_count + run[s].failed
        /\ run[s].pc = "collect" => run'[s].pc \in {"collect", "save_open"}
      ]_vars

\* the second batch is evaluated and yields a result after a first batch
\* in which one ticker failed and another succeeded
C3_Witness ==
    \E s \in Slots :
        /\ run[s].batch_index = 2
        /\ run[s].meta.failed_count >= 1
        /\ run[s].partial /= <<>>
        /\ run[s].pc = "collect"
        /\ run[s].futures[1].st = "done"
        /\ run[s].futures[1].res /= Null

\* C4: a call of _download_and_backtest_one downloads at most RETRIES + 1
\* times, every attempt before the current one raised, it ends by a return
\* at the first attempt that does not raise, and it returns None from line
\* 118 after exactly RETRIES + 1 attempts when all of them raise.
C4_RetryBound ==
    \A s \in Slots : \A i \in DOMAIN run[s].futures :
        LET f == run[s].futures[i] IN
        /\ f.calls <= RETRIES + 1
        /\ f.st = "running" => (f.calls = f.attempt /\ f.attempt <= RETRIES)
        /\ f.st = "done" =>
              /\ f.exit \in {"line112", "line113", "line118"}
              /\ f.exit = "line118" =>
                    (f.res = Null /\ f.calls = RETRIES + 1 /\ f.attempt = RETRIES)
              /\ f.exit /= "line118" => f.calls = f.attempt + 1
              /\ f.exit = "line112" => f.res = Null
              /\ f.exit = "line113" => f.res /= Null

\* a call whose every attempt raised
C4_Witness ==
    \E s \in Slots : \E i \in DOMAIN run[s].futures :
        /\ run[s].futures[i].st = "done"
        /\ run[s].futures[i].exit = "line118"
        /\ run[s].futures[i].calls = RETRIES + 1

\* C5: while a future of batch k is queued, running or not yet collected,
\* the coordinator is in the collection loop of that batch, and the
\* batches before it are merged and written: the state file holds the
\* snapshot of batch k - 1.
C5_BatchesSequential ==
    \A s \in Slots :
        Unresolved(run[s]) /= {} =>
            /\ run[s].pc = "collect"
            /\ run[s].batch_index >= 1
            /\ run[s].meta.completed_batches = run[s].batch_index - 1
            /\ Len(run[s].partial) + run[s].meta.failed_count
                  = SumLen(SubSeq(Batches(run[s]), 1, run[s].batch_index - 1))
            /\ stateFile = Whole(Payload(run[s].partial, run[s].meta))

\* an evaluation of the second batch is running
C5_Witness ==
    \E s \in Slots :
        /\ run[s].batch_index = 2
        /\ Running(run[s]) /= {}

\* C6: at most MAX_WORKERS evaluations are in flight, over all runs.
C6_PoolBound == Cardinality(InFlight) <= MAX_WORKERS

\* the pool is full, a ticker of the batch waits for a thread, and a second
\* run has been triggered
C6_Witness ==
    /\ Cardinality(InFlight) = MAX_WORKERS
    /\ \E s \in Slots : Queued(run[s]) /= {}
    /\ created >= 2

\* C7: the snapshot written after a batch is the one every other arrival
\* order of the results of that batch would have given.
C7_ArrivalOrderIrrelevant ==
    \A s \in Slots :
        ( /\ run[s].pc = "loop"
          /\ run[s].batch_index >= 1
          /\ run[s].results_batch /= <<>>
          /\ stateFile.kind = "whole" )
        => LET r == run[s]
               earlier == SubSeq(r.partial, 1, Len(r.partial) - Len(r.results_batch))
           IN  \A p \in Perms(r.results_batch) :
                   stateFile.snap.results = SortDesc(earlier \o p)

\* C8: the results of a snapshot hold no ticker twice.
C8_NoDuplicateTickers ==
    stateFile.kind = "whole" => NoDup(TickersOf(stateFile.snap.results))

FirstToken(toks, sym) ==
    CHOOSE j \in DOMAIN toks :
        /\ Upper(toks[j]) = sym
        /\ \A k \in DOMAIN toks : Upper(toks[k]) = sym => j <= k

\* C9: read_tickers returns the default list when the file is absent or
\* holds no token; otherwise a list without repetition of the upper-cased
\* tokens of the file, in the order of their first occurrence.
C9_ReadTickersNormalized ==
    rdPc = "returned" =>
        LET toks == IF tickersFile.exists THEN Tokens(tickersFile.raw) ELSE <<>> IN
        IF toks = <<>> THEN rdOut = DefaultTickers
        ELSE /\ NoDup(rdOut)
             /\ Range(rdOut) = {Upper(t) : t \in Range(toks)}
             /\ \A k1, k2 \in DOMAIN rdOut :
                    (k1 < k2 /\ rdOut[k1] /= rdOut[k2])
                    => FirstToken(toks, rdOut[k1]) < FirstToken(toks, rdOut[k2])

\* C10: the batches of _chunked are as many as ceil(n / b), the count kept
\* in the metadata; their sizes add up to n; every batch but the last holds
\* exactly b tickers and the last at least one; joined in order they are
\* the list.
C10_ChunkedPartition ==
    chPc = "done" =>
        /\ Len(chOut) = chBatches
        /\ chI = chBatches
        /\ SumLen(chOut) = Len(chSeq)
        /\ \A k \in 1..(Len(chOut) - 1) : Len(chOut[k]) = chN
        /\ chOut /= <<>> => Len(chOut[Len(chOut)]) \in 1..chN
        /\ Flatten(chOut) = chSeq

\* five tickers in batches of two: three batches, of sizes 2, 2 and 1
C10_Witness ==
    /\ chPc = "done"
    /\ Len(chSeq) = 5
    /\ chN = 2
    /\ Len(chOut) = 3
    /\ Len(chOut[3]) = 1

Count(q, x) == Cardinality({i \in DOMAIN q : q[i] = x})

\* every element of a is in b at least as often as in a
IsSubBag(a, b) == \A x \in Range(a) : Count(a, x) <= Count(b, x)

\* positions j of the record of writes such that snapshot j + 1 is the
\* per-batch snapshot that follows snapshot j
BatchWrites ==
    {j \in 1..(Len(writes.snaps) - 1) :
        writes.snaps[j + 1].meta.completed_batches
            = writes.snaps[j].meta.completed_batches + 1}

\* C11 as stated: the results written after batch k + 1 are a strict
\* superset of those written after batch k, and every snapshot has
\* completed_count equal to the number of its results.
C11_StrictlyGrowing ==
    /\ \A j \in DOMAIN writes.snaps :
          writes.snaps[j].meta.completed_count = Len(writes.snaps[j].results)
    /\ \A j \in BatchWrites :
          writes.snaps[j].meta.completed_batches >= 1 =>
              /\ Range(writes.snaps[j].results) \subseteq Range(writes.snaps[j + 1].results)
              /\ Range(writes.snaps[j].results) /= Range(writes.snaps[j + 1].results)

\* C11, amended: the results written after a batch hold every result of
\* the snapshot written before it; they are more unless every ticker of
\* the batch failed, and then failed_count has grown; every snapshot has
\* completed_count equal to the number of its results.
C11_Growing ==
    /\ \A j \in DOMAIN writes.snaps :
          writes.snaps[j].meta.completed_count = Len(writes.snaps[j].results)
    /\ \A j \in BatchWrites :
          /\ IsSubBag(writes.snaps[j].results, writes.snaps[j + 1].results)
          /\ Len(writes.snaps[j + 1].results) >= Len(writes.snaps[j].results)
          /\ Len(writes.snaps[j + 1].results) = Len(writes.snaps[j].results)
                => writes.snaps[j + 1].meta.failed_count > writes.snaps[j].meta.failed_count

\* the snapshots of two batches, the second one with more results than the
\* first, which has some
C11_Witness ==
    /\ Len(writes.snaps) >= 3
    /\ writes.snaps[3].meta.completed_batches = 2
    /\ Len(writes.snaps[2].results) >= 1
    /\ Len(writes.snaps[3].results) > Len(writes.snaps[2].results)

\* C12: a read does not raise; of a whole file it returns the snapshot
\* written last; it returns {} only of a file that is absent, which is so
\* only while nothing was written, or whose text does not parse.
C12_ReadReturnsLastWritten ==
    [][view' /= view =>
        /\ stateFile.kind = "whole" =>
              /\ writes.snaps /= <<>>
              /\ view'.got = writes.snaps[Len(writes.snaps)]
        /\ stateFile.kind /= "whole" => view'.got = EmptyDict
        /\ view'.got = EmptyDict => stateFile.kind \in {"absent", "torn"}
        /\ stateFile.kind = "absent" => writes.snaps = <<>>
      ]_vars

\* a read that met a whole file with results after one that met a torn file
C12_Witness ==
    /\ view.saw.kind = "whole"
    /\ view.got /= EmptyDict
    /\ Len(view.got.results) >= 1

\* the coordinator is inside _save_state
Saving(r) == r.pc \in {"save_open", "save_write"}

\* C13: the state file and the record of writes change only by a step of
\* a coordinator inside _save_state that has no future queued, running or
\* uncollected, no other coordinator being inside _save_state; a step of an
\* evaluation changes neither.
C13_WritesByCoordinatorOnly ==
    [][/\ (stateFile' /= stateFile \/ writes' /= writes) =>
            \E s \in Slots :
                /\ Saving(run[s])
                /\ Unresolved(run[s]) = {}
                /\ run'[s].futures = run[s].futures
                /\ \A t \in Slots \ {s} : ~Saving(run[t])
       /\ (\E s \in Slots : \E i \in DOMAIN run[s].futures :
               /\ run[s].futures[i].st = "running"
               /\ i \in DOMAIN run'[s].futures
               /\ run'[s].futures[i] /= run[s].futures[i])
            => (stateFile' = stateFile /\ writes' = writes)
      ]_vars

\* the save after a batch has opened the file, every future of the batch
\* collected
C13_Witness ==
    \E s \in Slots :
        /\ run[s].pc = "save_write"
        /\ run[s].batch_index >= 1
        /\ run[s].futures /= <<>>
        /\ stateFile = Torn

ZeroCounters(meta) ==
    /\ meta.completed_batches = 0
    /\ meta.completed_count = 0
    /\ meta.failed_count = 0

\* C14: the first snapshot a run writes has no results and counters 0; a
\* run that has dispatched a batch has written it before; while the first
\* batch is evaluated the state file holds it, and while any batch is
\* evaluated the state file holds a snapshot of this run.
C14_FirstWriteEmpty ==
    /\ writes.snaps /= <<>> =>
          /\ writes.snaps[1].results = <<>>
          /\ ZeroCounters(writes.snaps[1].meta)
    /\ \A s \in Slots :
          /\ run[s].batch_index >= 1 => (writes.id = run[s].id /\ writes.snaps /= <<>>)
          /\ Unresolved(run[s]) /= {} =>
                /\ stateFile.kind = "whole"
                /\ stateFile.snap \in Range(writes.snaps)
                /\ run[s].batch_index = 1 => stateFile.snap = writes.snaps[1]

\* the second run evaluates its first batch: the state file holds its
\* empty snapshot
C14_Witness ==
    \E s \in Slots :
        /\ run[s].id = 2
        /\ run[s].batch_index = 1
        /\ Running(run[s]) /= {}
        /\ stateFile.kind = "whole"
        /\ stateFile.snap.results = <<>>

Min(a, b) == IF a <= b THEN a ELSE b

\* C15: over the snapshots one run writes, completed_batches,
\* completed_count and failed_count never decrease; snapshot j has
\* completed_batches j - 1, one more with each per-batch write, and the
\* final write has that of the last batch.
C15_CountersMonotonic ==
    /\ \A j \in DOMAIN writes.snaps :
          writes.snaps[j].meta.completed_batches
              = Min(j - 1, writes.snaps[j].meta.batches)
    /\ \A j \in 1..(Len(writes.snaps) - 1) :
          /\ writes.snaps[j + 1].meta.completed_batches >= writes.snaps[j].meta.completed_batches
          /\ writes.snaps[j + 1].meta.completed_count >= writes.snaps[j].meta.completed_count
          /\ writes.snaps[j + 1].meta.failed_count >= writes.snaps[j].meta.failed_count

\* a run of two batches has written its final snapshot, with a failure in
\* the first batch and a result in the second
C15_Witness ==
    /\ Len(writes.snaps) = 4
    /\ writes.snaps[2].meta.failed_count >= 1
    /\ writes.snaps[3].meta.completed_count > writes.snaps[2].meta.completed_count
    /\ writes.snaps[4].meta.completed_batches = 2

\* C16: the pass in which the download has no data ends the call at line
\* 112 with None: one download more, no further attempt, no back-off; the
\* call stays ended until it is collected, and collecting it counts one
\* failure and adds no result.
C16_NoDataNotRetried ==
    [][\A s \in Slots : \A i \in DOMAIN run[s].futures :
        (i \in DOMAIN run'[s].futures /\ run'[s].batch_index = run[s].batch_index) =>
            LET f == run[s].futures[i]
                g == run'[s].futures[i] IN
            /\ (f.st = "running" /\ g.exit = "line112") =>
                  /\ g.st = "done"
                  /\ g.res = Null
                  /\ g.calls = f.calls + 1
                  /\ g.attempt = f.attempt
                  /\ g.sleeps = f.sleeps
            /\ (f.st = "done" /\ f.exit = "line112") =>
                  \/ g = f
                  \/ /\ g.st = "collected"
                     /\ run'[s].failed = run[s].failed + 1
                     /\ run'[s].results_batch = run[s].results_batch
                     /\ run'[s].partial = run[s].partial
      ]_vars

\* a call ended without data at its first attempt, after another call of
\* the batch was counted as failed
C16_Witness ==
    \E s \in Slots : \E i \in DOMAIN run[s].futures :
        /\ run[s].futures[i].st = "done"
        /\ run[s].futures[i].exit = "line112"
        /\ run[s].futures[i].calls = 1
        /\ run[s].futures[i].sleeps = 0
        /\ run[s].failed >= 1

\* C17: a call of backtest_tickers is ended by an exception only out of
\* _save_state, and a call so ended dispatches no batch and writes nothing
\* afterwards.
C17_OnlyPersistenceFatal ==
    [][\A s \in Slots :
        /\ (run'[s].pc = "raised" /\ run'[s] /= run[s]) => Saving(run[s])
        /\ (run[s].pc = "raised" /\ run'[s].id = run[s].id) =>
              (run'[s] = run[s] /\ writes' = writes)
      ]_vars

\* C18: in every snapshot a run writes, completed_count + failed_count is
\* the number of tickers of the batches completed, the smaller of
\* completed_batches * batch_size and total_tickers, so completed_count is
\* at most completed_batches * batch_size; the snapshot of a run that has
\* returned accounts for every ticker.
C18_EveryTickerCountedOnce ==
    /\ \A j \in DOMAIN writes.snaps :
          LET m == writes.snaps[j].meta IN
          /\ m.completed_count + m.failed_count
                = Min(m.completed_batches * m.batch_size, m.total_tickers)
          /\ m.completed_count <= m.completed_batches * m.batch_size
    /\ \A s \in Slots :
          run[s].pc = "done" =>
              /\ writes.id = run[s].id
              /\ writes.snaps[Len(writes.snaps)].meta.completed_count
                    + writes.snaps[Len(writes.snaps)].meta.failed_count
                    = Len(run[s].tickers)

\* a run over four tickers has returned: a full batch and a short one,
\* with a failure and a result among them
C18_Witness ==
    \E s \in Slots :
        /\ run[s].pc = "done"
        /\ Len(run[s].tickers) = BATCH_SIZE + 1
        /\ writes.snaps[2].meta.completed_count + writes.snaps[2].meta.failed_count = BATCH_SIZE
        /\ writes.snaps[Len(writes.snaps)].meta.failed_count >= 1
        /\ writes.snaps[Len(writes.snaps)].meta.completed_count >= 1

\* C19: at most one call of backtest_tickers is executing; the calls are
\* begun in the order of their triggers; only the call begun last is inside
\* _save_state, and the record of writes is that of a call begun.
C19_SingleFlight ==
    /\ Cardinality({s \in Slots : ~Free(run[s])}) <= 1
    /\ started = [j \in 1..Len(started) |-> j]
    /\ \A s \in Slots :
          Saving(run[s]) => (started /= <<>> /\ run[s].id = started[Len(started)])
    /\ writes.snaps /= <<>> => \E j \in DOMAIN started : started[j] = writes.id
    /\ \A j \in DOMAIN execQueue : \A k \in DOMAIN started : started[k] < execQueue[j]

\* a second run waits in the executor's queue while the first one writes
\* the snapshot of a batch
C19_Witness ==
    /\ execQueue = <<2>>
    /\ \E s \in Slots :
          /\ run[s].id = 1
          /\ run[s].pc = "save_write"
          /\ run[s].batch_index >= 1

\* what holds of a call that has ended: one that raised did so at line
\* 132, having written nothing; one that returned wrote the empty
\* snapshot, one snapshot per batch and the final one, the last with
\* completed_batches = batches = ceil(total_tickers / BATCH_SIZE) and
\* equal to the one before it
CallEnded(r) ==
    /\ r.pc = "raised" => (ReadRaises(tickersFile) /\ writes.snaps = <<>>)
    /\ r.pc = "done" =>
          LET n == Len(writes.snaps)
              batches == CeilDiv(Len(r.tickers), BATCH_SIZE) IN
          /\ n = batches + 2
          /\ writes.snaps[n].meta.batches = batches
          /\ writes.snaps[n].meta.completed_batches = batches
          /\ writes.snaps[n] = writes.snaps[n - 1]
          /\ stateFile = Whole(writes.snaps[n])
          /\ r.tickers = <<>> =>
                /\ batches = 0
                /\ writes.snaps[n].results = <<>>
                /\ writes.snaps[n].meta.completed_count = 0

====
